---------------------------- MODULE Spec2Model ----------------------------
(***************************************************************************)
(* Model of the chat application of sistema2 (src/chat/utils.py,          *)
(* src/chat/views.py): the rule-based fallback engine, the Google AI      *)
(* adapter, the product comparison and the views that read and append the *)
(* conversation log.                                                      *)
(*                                                                         *)
(* Python strings that are searched or transformed (messages, keywords,   *)
(* category names, AI texts) are sequences of one-character strings.  The *)
(* accented letters are written with an ASCII mark: "i'" is i-acute,      *)
(* "u'" is u-acute, "e'" is e-acute and "n~" is n-tilde; their capitals   *)
(* are "I'", "U'", "E'" and "N~".                                         *)
(***************************************************************************)
EXTENDS Integers, Sequences, FiniteSets, TLC

VARIABLES
    Product,      \* rows of store.models.Product
    Category,     \* rows of store.models.Category
    api_key,      \* TRUE iff GOOGLE_AI_API_KEY is configured (settings or env)
    ChatMessage,  \* rows of chat.models.ChatMessage, in insertion (id) order
    session,      \* session key held by each anonymous browser
    clock,        \* time of the last save, in ticks of the timestamp resolution
    call,         \* the last operation and its inputs
    ret           \* what that operation returned and what it invoked

vars == <<Product, Category, api_key, ChatMessage, session, clock, call, ret>>

-----------------------------------------------------------------------------
(* Bounds of the model *)

MaxProducts == 3     \* rows in the Product table
MaxWords == 2        \* words in a user message
MaxIds == 3          \* length of a product_ids list
MaxTurns == 2        \* stored turns in SpecChat
MaxLogTurns == 22    \* stored turns in SpecLog
MaxOdd == 1          \* turns saved within the tick of the turn before, or by
                     \* the less active kind of identity (SpecLog)

-----------------------------------------------------------------------------
(* Python str operations *)

LowerChar(c) ==
    CASE c = "A" -> "a" [] c = "C" -> "c" [] c = "O" -> "o" [] c = "P" -> "p"
      [] c = "R" -> "r" [] c = "S" -> "s" [] c = "K" -> "k" [] c = "T" -> "t"
      [] c = "I'" -> "i'" [] c = "U'" -> "u'" [] c = "E'" -> "e'"
      [] c = "N~" -> "n~"
      [] OTHER -> c

Lower(s) == [i \in 1..Len(s) |-> LowerChar(s[i])]

\* Python's `sub in s`
Contains(s, sub) ==
    \/ sub = <<>>
    \/ \E i \in 0..(Len(s) - Len(sub)) :
          s[i + 1] = sub[1] /\ SubSeq(s, i + 1, i + Len(sub)) = sub

\* any(word in s for word in words)
AnyWordIn(words, s) == \E k \in 1..Len(words) : Contains(s, words[k])

IsSpace(c) == c \in {" ", "\n", "\t"}

RECURSIVE LStrip(_)
LStrip(s) == IF s # <<>> /\ IsSpace(Head(s)) THEN LStrip(Tail(s)) ELSE s

RECURSIVE RStrip(_)
RStrip(s) ==
    IF s # <<>> /\ IsSpace(s[Len(s)]) THEN RStrip(SubSeq(s, 1, Len(s) - 1)) ELSE s

\* str.strip()
Strip(s) == RStrip(LStrip(s))

\* Django's __icontains lookup
icontains(value, needle) == Contains(Lower(value), Lower(needle))

-----------------------------------------------------------------------------
(* Keyword sets of generate_fallback_response *)

CategoryKeywords ==
    << <<"c", "a", "t", "e", "g", "o", "r", "i'", "a">>,
       <<"c", "a", "t", "e", "g", "o", "r", "i", "a">>,
       <<"c", "o", "m", "p", "u", "t", "a", "d", "o", "r", "a", "s">>,
       <<"r", "o", "p", "a">>,
       <<"m", "u'", "s", "i", "c", "a">>,
       <<"m", "u", "e", "b", "l", "e", "s">>,
       <<"a", "c", "c", "e", "s", "o", "r", "i", "o", "s">> >>

BudgetKeywords ==
    << <<"p", "r", "e", "s", "u", "p", "u", "e", "s", "t", "o">>,
       <<"g", "s">>,
       <<"g", "u", "a", "r", "a", "n", "i'", "e", "s">>,
       <<"2", "0", "0", ".", "0", "0", "0">>,
       <<"2", "0", "0", "0", "0", "0">>,
       <<"d", "i", "n", "e", "r", "o">> >>

AccountKeywords ==
    << <<"c", "o", "n", "t", "r", "a", "s", "e", "n~", "a">>,
       <<"p", "a", "s", "s", "w", "o", "r", "d">>,
       <<"c", "a", "m", "b", "i", "a", "r", " ", "c", "o", "n", "t", "r", "a", "s", "e", "n~", "a">>,
       <<"o", "l", "v", "i", "d", "e'", " ", "c", "o", "n", "t", "r", "a", "s", "e", "n~", "a">> >>

PurchaseKeywords ==
    << <<"c", "o", "m", "p", "r", "a", "r">>,
       <<"p", "e", "d", "i", "d", "o">>,
       <<"c", "a", "r", "r", "i", "t", "o">>,
       <<"p", "a", "g", "o">>,
       <<"e", "n", "v", "i'", "o">> >>

StockKeywords ==
    << <<"s", "t", "o", "c", "k">>,
       <<"d", "i", "s", "p", "o", "n", "i", "b", "l", "e">>,
       <<"c", "a", "n", "t", "i", "d", "a", "d">>,
       <<"u", "n", "i", "d", "a", "d", "e", "s">> >>

kw_computadora == <<"c", "o", "m", "p", "u", "t", "a", "d", "o", "r", "a">>

budget == 200000

TopStock == 3

FeaturedCount == 3

-----------------------------------------------------------------------------
(* Catalog rows the model draws its tables from *)

name_Computadoras == <<"C", "o", "m", "p", "u", "t", "a", "d", "o", "r", "a", "s">>
name_Ropa == <<"R", "o", "p", "a">>

CategoryPool ==
    { [id |-> 1, category_name |-> name_Computadoras],
      [id |-> 2, category_name |-> name_Ropa] }

ProductRow(id, name, price, stock, cat, avail) ==
    [id |-> id, product_name |-> name, price |-> price, stock |-> stock,
     category |-> cat, is_available |-> avail]

ProductPool ==
    { ProductRow(1, "LaptopX", 150000, 3, 1, TRUE),
      ProductRow(2, "Camisa", 50000, 10, 2, TRUE),
      ProductRow(3, "Mouse", 200000, 0, 1, TRUE),
      ProductRow(4, "Sofa", 300000, 5, 2, TRUE),
      ProductRow(5, "Teclado", 50000, 3, 1, FALSE) }

\* str comparison of the product names of the pool
NameRank(name) ==
    CASE name = "Camisa" -> 1 [] name = "LaptopX" -> 2 [] name = "Mouse" -> 3
      [] name = "Sofa" -> 4 [] name = "Teclado" -> 5

\* every product row references an existing category row (foreign key)
Catalogs ==
    { c \in [Product : SUBSET ProductPool, Category : SUBSET CategoryPool] :
        /\ Cardinality(c.Product) <= MaxProducts
        /\ \A p \in c.Product : \E k \in c.Category : k.id = p.category }

\* product.category.category_name
CategoryName(p) == (CHOOSE k \in Category : k.id = p.category).category_name

-----------------------------------------------------------------------------
(* QuerySet evaluation *)

Perms(S) ==
    { q \in [1..Cardinality(S) -> S] : \A i, j \in 1..Cardinality(S) : q[i] = q[j] => i = j }

\* a queryset without order_by: the database returns the rows in any order
Unordered(S) == Perms(S)

\* order_by(key): ascending by key (a function of the row), rows with equal
\* keys in any order
OrderBy(S, key) ==
    { q \in Perms(S) : \A i, j \in 1..Len(q) : i < j => key[q[i]] <= key[q[j]] }

\* queryset[:n]
Take(q, n) == SubSeq(q, 1, IF Len(q) < n THEN Len(q) ELSE n)

\* order_by('?')[:n]: n distinct rows drawn at random, in any order
RandomSample(S, n) == { Take(q, n) : q \in Perms(S) }

-----------------------------------------------------------------------------
(* Values returned by the engine: a Python str, or None.  A str is kept   *)
(* as the template that produced it (kind) and the data formatted into    *)
(* it; every template holds literal text, so only an "ai" str, which is   *)
(* the stripped text of the service, can be the empty string.             *)

Str(kind, items, price, product_count, category_count, text) ==
    [t |-> "str", kind |-> kind, items |-> items, price |-> price,
     product_count |-> product_count, category_count |-> category_count,
     text |-> text]

Template(kind) == Str(kind, <<>>, 0, 0, 0, <<>>)

Listing(kind, items) == Str(kind, items, 0, 0, 0, <<>>)

None == [Template("None") EXCEPT !.t = "None"]

IsStr(v) == v.t = "str"

IsEmptyStr(v) == IsStr(v) /\ v.kind = "ai" /\ v.text = <<>>

\* the text returned by the except clause of generate_fallback_response
StaticGreeting == Template("static_greeting")

\* outcome of a block of code: it returns a value or raises
Return(v) == [raised |-> FALSE, value |-> v]

Raise == [raised |-> TRUE, value |-> None]

-----------------------------------------------------------------------------
(* ChatBotUtils.generate_fallback_response *)

Available == { p \in Product : p.is_available }

Price == [p \in Product |-> p.price]

NegStock == [p \in Product |-> 0 - p.stock]

\* branch 1: category keywords
CategoryBranch(user_message_lower, db_ok) ==
    IF ~db_ok THEN {Raise}
    ELSE IF Contains(user_message_lower, kw_computadora)
    THEN LET products == { p \in Available : icontains(CategoryName(p), kw_computadora) }
         IN  IF products # {}
             THEN { Return(Listing("category_products", q)) : q \in Unordered(products) }
             ELSE { Return(Template("category_empty")) }
    ELSE { Return(Listing("category_list", q)) : q \in Unordered(Category) }

\* mutant of BudgetBranch: the filter is price < budget (price__lt)
BudgetBranch_PriceBelow(db_ok) ==
    IF ~db_ok THEN {Raise}
    ELSE LET affordable_products == { p \in Available : p.price < budget }
         IN  IF affordable_products # {}
             THEN { Return(Listing("budget_list", q)) :
                        q \in OrderBy(affordable_products, Price) }
             ELSE IF Available = {}
                  THEN {Raise}
                  ELSE { Return(Str("budget_none", <<>>, q[1].price, 0, 0, <<>>)) :
                             q \in OrderBy(Available, Price) }

\* branch 2: budget keywords
BudgetBranch(db_ok) ==
    IF ~db_ok THEN {Raise}
    ELSE LET affordable_products == { p \in Available : p.price <= budget }
         IN  IF affordable_products # {}
             THEN { Return(Listing("budget_list", q)) :
                        q \in OrderBy(affordable_products, Price) }
             ELSE IF Available = {}
                  THEN {Raise}    \* .first() is None: None.price raises
                  ELSE { Return(Str("budget_none", <<>>, q[1].price, 0, 0, <<>>)) :
                             q \in OrderBy(Available, Price) }

\* branch 5: stock keywords; with no product the if has no else and the
\* function falls off its end
StockBranch(db_ok) ==
    IF ~db_ok THEN {Raise}
    ELSE IF Product # {}
         THEN { Return(Listing("stock_top", Take(q, TopStock))) :
                    q \in OrderBy(Product, NegStock) }
         ELSE { Return(None) }

\* branch 6: no keyword
GeneralBranch(db_ok) ==
    IF ~db_ok THEN {Raise}
    ELSE { Return(Str("general", featured, 0, Cardinality(Product),
                      Cardinality(Category), <<>>)) :
               featured \in RandomSample(Available, FeaturedCount) }

\* mutant of Branch: the purchase keywords are tested before the budget ones
Branch_PurchaseBeforeBudget(user_message) ==
    LET user_message_lower == Lower(user_message)
    IN  IF AnyWordIn(CategoryKeywords, user_message_lower) THEN "category"
        ELSE IF AnyWordIn(PurchaseKeywords, user_message_lower) THEN "purchase"
        ELSE IF AnyWordIn(BudgetKeywords, user_message_lower) THEN "budget"
        ELSE IF AnyWordIn(AccountKeywords, user_message_lower) THEN "account"
        ELSE IF AnyWordIn(StockKeywords, user_message_lower) THEN "stock"
        ELSE "general"

\* the branch the if/elif chain selects
Branch(user_message) ==
    LET user_message_lower == Lower(user_message)
    IN  IF AnyWordIn(CategoryKeywords, user_message_lower) THEN "category"
        ELSE IF AnyWordIn(BudgetKeywords, user_message_lower) THEN "budget"
        ELSE IF AnyWordIn(AccountKeywords, user_message_lower) THEN "account"
        ELSE IF AnyWordIn(PurchaseKeywords, user_message_lower) THEN "purchase"
        ELSE IF AnyWordIn(StockKeywords, user_message_lower) THEN "stock"
        ELSE "general"

\* the body of the try block: the outcomes of the selected branch
FallbackTry(user_message, db_ok) ==
    LET b == Branch(user_message)
    IN  CASE b = "category" -> CategoryBranch(Lower(user_message), db_ok)
          [] b = "budget"   -> BudgetBranch(db_ok)
          [] b = "account"  -> { Return(Template("account_script")) }
          [] b = "purchase" -> { Return(Template("purchase_script")) }
          [] b = "stock"    -> StockBranch(db_ok)
          [] OTHER          -> GeneralBranch(db_ok)

\* mutant of generate_fallback_response: the except clause swallows the
\* fault and returns nothing
generate_fallback_response_Swallow(user_message, db_ok) ==
    { IF r.raised THEN None ELSE r.value :
          r \in FallbackTry(user_message, db_ok) }

\* try ... except Exception: return the static greeting
generate_fallback_response(user_message, db_ok) ==
    { IF r.raised THEN StaticGreeting ELSE r.value :
          r \in FallbackTry(user_message, db_ok) }

-----------------------------------------------------------------------------
(* ChatBotUtils.__init__ and the external text-generation service *)

NoModel == "None"

\* what the genai library answers while the instance is constructed:
\* whether each GenerativeModel(...) call succeeds, and what list_models gives
LoadOutcomes ==
    [latest : BOOLEAN, pro : BOOLEAN, listing : {"raises", "empty", "some"},
     listed : BOOLEAN]

\* list_available_models: the names supporting generateContent, or
\* ['gemini-pro'] when listing raises
list_available_models(load) ==
    CASE load.listing = "raises" -> <<"gemini-pro">>
      [] load.listing = "empty"  -> <<>>
      [] OTHER                   -> <<"models/listed">>

ChatBotUtils_init(key, load) ==
    IF ~key THEN [raised |-> TRUE, model |-> NoModel]
    ELSE IF load.latest THEN [raised |-> FALSE, model |-> "models/gemini-pro-latest"]
    ELSE IF load.pro THEN [raised |-> FALSE, model |-> "models/gemini-pro"]
    ELSE LET available_models == list_available_models(load)
         IN  IF available_models # <<>> /\ load.listed
             THEN [raised |-> FALSE, model |-> available_models[1]]
             ELSE [raised |-> FALSE, model |-> NoModel]

\* texts the service may answer with
AiTexts == { <<" ", "o", "k", "\n">>, <<" ">> }

\* outcome of one call of the service: generate_content raises (transport,
\* quota), response.text raises (malformed or blocked response), or a text
ServiceOutcomes ==
    { [kind |-> "error", text |-> <<>>], [kind |-> "malformed", text |-> <<>>] }
        \cup { [kind |-> "ok", text |-> t] : t \in AiTexts }

AiStr(text) == Str("ai", <<>>, 0, 0, 0, text)

-----------------------------------------------------------------------------
(* ChatBotUtils.generate_google_ai_response *)

Trace(raised, value, service_called, fallback_called, fallback_value, manual_called) ==
    [raised |-> raised, value |-> value, service_called |-> service_called,
     fallback_called |-> fallback_called, fallback_value |-> fallback_value,
     manual_called |-> manual_called]

\* mutant of GenerateExcept: the handler answers with an apology of its own
GenerateExcept_Apology(user_message, service_called, db_ok) ==
    { Trace(FALSE, Template("apology"), service_called, FALSE, None, FALSE) }

\* except Exception: return self.generate_fallback_response(user_message)
GenerateExcept(user_message, service_called, db_ok) ==
    { Trace(FALSE, v, service_called, TRUE, v, FALSE) :
          v \in generate_fallback_response(user_message, db_ok) }

generate_google_ai_response(user_message, conversation_history, model, svc, db_ok) ==
    IF ~db_ok                       \* get_product_info raises
    THEN GenerateExcept(user_message, FALSE, db_ok)
    ELSE IF model = NoModel         \* None.generate_content raises
    THEN GenerateExcept(user_message, FALSE, db_ok)
    ELSE IF svc.kind # "ok"
    THEN GenerateExcept(user_message, TRUE, db_ok)
    ELSE { Trace(FALSE, AiStr(Strip(svc.text)), TRUE, FALSE, None, FALSE) }

-----------------------------------------------------------------------------
(* ChatBotUtils.compare_products *)

NeedTwo == Template("Se necesitan al menos 2 productos para comparar")

\* the class defines no _manual_product_comparison: looking it up on the
\* instance raises AttributeError
manual_product_comparison(product_ids) == Raise

\* except Exception: return self._manual_product_comparison(product_ids)
CompareExcept(product_ids, service_called) ==
    LET r == manual_product_comparison(product_ids)
    IN  Trace(r.raised, r.value, service_called, FALSE, None, TRUE)

\* Product.objects.filter(id__in=product_ids)
ProductsIn(product_ids) ==
    { p \in Product : \E i \in 1..Len(product_ids) : product_ids[i] = p.id }

\* mutant of compare_products: the guard counts the ids, not the products
compare_products_CountsIds(product_ids, model, svc, db_ok) ==
    IF ~db_ok THEN CompareExcept(product_ids, FALSE)
    ELSE IF Len(product_ids) < 2
    THEN Trace(FALSE, NeedTwo, FALSE, FALSE, None, FALSE)
    ELSE IF model = NoModel THEN CompareExcept(product_ids, FALSE)
    ELSE IF svc.kind # "ok" THEN CompareExcept(product_ids, TRUE)
    ELSE Trace(FALSE, AiStr(Strip(svc.text)), TRUE, FALSE, None, FALSE)

compare_products(product_ids, model, svc, db_ok) ==
    IF ~db_ok THEN CompareExcept(product_ids, FALSE)
    ELSE IF Cardinality(ProductsIn(product_ids)) < 2
    THEN Trace(FALSE, NeedTwo, FALSE, FALSE, None, FALSE)
    ELSE IF model = NoModel THEN CompareExcept(product_ids, FALSE)
    ELSE IF svc.kind # "ok" THEN CompareExcept(product_ids, TRUE)
    ELSE Trace(FALSE, AiStr(Strip(svc.text)), TRUE, FALSE, None, FALSE)

-----------------------------------------------------------------------------
(* Inputs *)

Words ==
    { <<"C", "o", "m", "p", "u", "t", "a", "d", "o", "r", "a", "s">>,
      <<"c", "o", "m", "p", "u", "t", "a", "d", "o", "r", "a">>,
      <<"R", "O", "P", "A">>,
      <<"p", "r", "e", "s", "u", "p", "u", "e", "s", "t", "o">>,
      <<"p", "a", "g", "o", "s">>,
      <<"p", "a", "s", "s", "w", "o", "r", "d">>,
      <<"c", "o", "m", "p", "r", "a", "r">>,
      <<"s", "t", "o", "c", "k">> }

RECURSIVE MessagesOf(_)
MessagesOf(n) ==
    IF n = 0 THEN { <<>> }
    ELSE IF n = 1 THEN Words
    ELSE { m \o <<" ">> \o w : m \in MessagesOf(n - 1), w \in Words }

\* user messages: up to MaxWords words separated by one space
Messages == UNION { MessagesOf(n) : n \in 0..MaxWords }

\* product ids a caller may send: ids of the pool and an id of no product
IdPool == {1, 2, 9}

ProductIdLists == UNION { [1..n -> IdPool] : n \in 0..MaxIds }

Models == { ChatBotUtils_init(TRUE, load).model : load \in LoadOutcomes }

\* self.model as the methods of the engine use it: no model, or a loaded
\* one, whose name plays no part after __init__
EngineModels == { NoModel, CHOOSE model \in Models : model # NoModel }

\* the outcome of the service is an input of the call only when the call
\* gets as far as self.model.generate_content
ServiceReached(model, svc, db_ok) == (model = NoModel \/ ~db_ok) => svc.kind = "error"

NoKey == "None"

Browsers == {"b1", "b2"}

Users == {"alice"}

NoUser == "None"

NoRequest == [user |-> NoUser, browser |-> "b1"]

Call(op, user_message, product_ids, model, svc, db_ok) ==
    [op |-> op, user_message |-> user_message, product_ids |-> product_ids,
     model |-> model, svc |-> svc, db_ok |-> db_ok]

Idle == Call("idle", <<>>, <<>>, NoModel, [kind |-> "error", text |-> <<>>], TRUE)

NoTrace == Trace(FALSE, None, FALSE, FALSE, None, FALSE)

-----------------------------------------------------------------------------
(* Specification of the engine: one call of a ChatBotUtils method on any  *)
(* catalog                                                                 *)

Init ==
    /\ \E c \in Catalogs : Product = c.Product /\ Category = c.Category
    /\ api_key \in BOOLEAN
    /\ ChatMessage = <<>>
    /\ session = [b \in Browsers |-> NoKey]
    /\ clock = 0
    /\ call = Idle
    /\ ret = NoTrace

Tables == <<Product, Category, api_key>>

\* utils.generate_fallback_response(user_message)
Respond ==
    /\ call.op = "idle" /\ api_key
    /\ \E user_message \in Messages, db_ok \in BOOLEAN :
         \E v \in generate_fallback_response(user_message, db_ok) :
            /\ call' = Call("respond", user_message, <<>>, NoModel, Idle.svc, db_ok)
            /\ ret' = Trace(FALSE, v, FALSE, TRUE, v, FALSE)
    /\ UNCHANGED <<Tables, ChatMessage, session, clock>>

\* utils.generate_google_ai_response(user_message, [])
Generate ==
    /\ call.op = "idle" /\ api_key
    /\ \E user_message \in Messages, model \in EngineModels, svc \in ServiceOutcomes,
          db_ok \in BOOLEAN :
         \E r \in generate_google_ai_response(user_message, <<>>, model, svc, db_ok) :
            /\ ServiceReached(model, svc, db_ok)
            /\ call' = Call("generate", user_message, <<>>, model, svc, db_ok)
            /\ ret' = r
    /\ UNCHANGED <<Tables, ChatMessage, session, clock>>

\* utils.compare_products(product_ids)
Compare ==
    /\ call.op = "idle" /\ api_key
    /\ \E product_ids \in ProductIdLists, model \in EngineModels,
          svc \in ServiceOutcomes, db_ok \in BOOLEAN :
            /\ ServiceReached(model, svc, db_ok)
            /\ call' = Call("compare", <<>>, product_ids, model, svc, db_ok)
            /\ ret' = compare_products(product_ids, model, svc, db_ok)
    /\ UNCHANGED <<Tables, ChatMessage, session, clock>>

Next == Respond \/ Generate \/ Compare

Spec == Init /\ [][Next]_vars

-----------------------------------------------------------------------------
(* The conversation log: chat.models.ChatMessage as the views use it *)

IsAuthenticated(request) == request.user # NoUser

SessionKeys == {"k1", "k2"}

Row(id, user, session_key, user_message, bot_response, timestamp) ==
    [id |-> id, user |-> user, session_key |-> session_key,
     user_message |-> user_message, bot_response |-> bot_response,
     timestamp |-> timestamp]

\* mutant of SessionKeyChoices: no session is created for a browser without one
SessionKeyChoices_NoCreate(request) == { session[request.browser] }

\* request.session.session_key, after request.session.create() when the
\* browser holds none: create() makes a key no session uses yet
SessionKeyChoices(request) ==
    IF session[request.browser] # NoKey THEN { session[request.browser] }
    ELSE SessionKeys \ { session[b] : b \in Browsers }

\* mutant of OwnRows: the anonymous read filters on nothing
OwnRows_AnonymousAll(request, session_key) ==
    IF IsAuthenticated(request)
    THEN { i \in 1..Len(ChatMessage) : ChatMessage[i].user = request.user }
    ELSE 1..Len(ChatMessage)

\* ChatMessage.objects.filter(user=request.user), or
\* ChatMessage.objects.filter(session_key=session_key): the ids of the rows
OwnRows(request, session_key) ==
    IF IsAuthenticated(request)
    THEN { i \in 1..Len(ChatMessage) : ChatMessage[i].user = request.user }
    ELSE { i \in 1..Len(ChatMessage) : ChatMessage[i].session_key = session_key }

\* order_by('timestamp') over the rows I: ascending, rows with the same
\* timestamp in any order
RECURSIVE ByTimestamp(_)
ByTimestamp(I) ==
    IF I = {} THEN { <<>> }
    ELSE LET first == { i \in I : \A j \in I :
                            ChatMessage[i].timestamp <= ChatMessage[j].timestamp }
         IN  { q \o rest : q \in Perms(first), rest \in ByTimestamp(I \ first) }

\* .order_by('timestamp')[:limit], evaluated
History(I, limit) ==
    { [k \in 1..Len(Take(q, limit)) |-> ChatMessage[q[k]]] : q \in ByTimestamp(I) }

TranscriptLimit == 20

ContextLimit == 10

\* chat_message.save(): the row is inserted with the next id and the
\* current time; bot_response is a text column and takes no NULL
ChatMessage_save(user, session_key, user_message, bot_response, now) ==
    IF ~IsStr(bot_response) THEN Raise
    ELSE Return(Row(Len(ChatMessage) + 1, user, session_key, user_message,
                    bot_response, now))

-----------------------------------------------------------------------------
(* Responses of the views *)

\* what a view hands back: an HTTP response, or an exception that left it;
\* constructed tells whether the view called ChatBotUtils() on the way
Response(raised, status, success, value, history, trace) ==
    [raised |-> raised, status |-> status, success |-> success, value |-> value,
     history |-> history, trace |-> trace, constructed |-> FALSE]

\* chat_utils = ChatBotUtils() was executed before the response was made
Constructed(response) == [response EXCEPT !.constructed = TRUE]

Json(status, success, value) == Response(FALSE, status, success, value, <<>>, NoTrace)

Uncaught == Response(TRUE, 500, FALSE, None, <<>>, NoTrace)

Request(op, request, valid, user_message, product_ids) ==
    [op |-> op, request |-> request, valid |-> valid,
     user_message |-> user_message, product_ids |-> product_ids]

\* the message of the except clause of ChatView.post
ErrorText == Template("Lo siento, hubo un error al procesar tu mensaje")

-----------------------------------------------------------------------------
(* ChatView *)

\* for msg in conversation_history: history_list.append({...})
HistoryList(conversation_history) ==
    [k \in 1..Len(conversation_history) |->
        [user_message |-> conversation_history[k].user_message,
         bot_response |-> conversation_history[k].bot_response]]

\* ChatView.get: the transcript of the requesting identity
ChatView_get(request) ==
    /\ \E session_key \in SessionKeyChoices(request) :
         \E messages \in History(OwnRows(request, session_key), TranscriptLimit) :
            /\ session' = IF IsAuthenticated(request) THEN session
                          ELSE [session EXCEPT ![request.browser] = session_key]
            /\ call' = Request("get", request, TRUE, <<>>, <<>>)
            /\ ret' = Response(FALSE, 200, TRUE, Template("chat/chat.html"),
                               messages, NoTrace)
    /\ UNCHANGED <<Tables, ChatMessage, clock>>

\* ChatView.post with an invalid form
PostInvalid(request) ==
    /\ call' = Request("post", request, FALSE, <<>>, <<>>)
    /\ ret' = Json(200, FALSE, Template("Formulario inva'lido"))
    /\ UNCHANGED <<Tables, ChatMessage, session, clock>>

\* ChatView.post with a valid form whose ChatBotUtils() raises ValueError
PostNoKey(request, user_message) ==
    /\ call' = Request("post", request, TRUE, user_message, <<>>)
    /\ ret' = Constructed(Uncaught)
    /\ UNCHANGED <<Tables, ChatMessage, session, clock>>

\* ChatView.post with a valid form and a ChatBotUtils instance
PostValid(request, user_message, model, svc, db_ok, now) ==
    \E session_key \in SessionKeyChoices(request) :
      \E conversation_history \in History(OwnRows(request, session_key), ContextLimit) :
        \E g \in generate_google_ai_response(user_message,
                     HistoryList(conversation_history), model, svc, db_ok) :
          LET bot_response == IF g.raised THEN ErrorText ELSE g.value
              saved == ChatMessage_save(
                           IF IsAuthenticated(request) THEN request.user ELSE NoUser,
                           IF ~IsAuthenticated(request) THEN session_key ELSE "",
                           user_message, bot_response, now)
          IN  /\ call' = Request("post", request, TRUE, user_message, <<>>)
              /\ IF saved.raised
                 THEN /\ ret' = Constructed([Uncaught EXCEPT
                                                    !.history = conversation_history,
                                                    !.trace = g])
                      /\ UNCHANGED <<ChatMessage, session, clock>>
                 ELSE /\ ChatMessage' = Append(ChatMessage, saved.value)
                      /\ clock' = now
                      /\ session' = IF IsAuthenticated(request) THEN session
                                    ELSE [session EXCEPT ![request.browser] = session_key]
                      /\ ret' = Constructed(Response(FALSE, 200, TRUE, bot_response,
                                                     conversation_history, g))
              /\ UNCHANGED Tables

ChatView_post(request, valid, user_message, load, svc, db_ok, now) ==
    /\ now \in {clock, clock + 1}
    /\ IF ~valid THEN PostInvalid(request)
       ELSE LET chat_utils == ChatBotUtils_init(api_key, load)
            IN  IF chat_utils.raised THEN PostNoKey(request, user_message)
                ELSE PostValid(request, user_message, chat_utils.model, svc, db_ok, now)

-----------------------------------------------------------------------------
(* ProductsByCategoryView, CompareProductsView, get_stock_list *)

\* request bodies of ProductsByCategoryView: not JSON, or a JSON object
\* with category_id, with category_name, or with neither
CategoryBodies ==
    { [json |-> FALSE, category_id |-> 0, category_name |-> <<>>] }
      \cup { [json |-> TRUE, category_id |-> i, category_name |-> <<>>] : i \in 0..2 }
      \cup { [json |-> TRUE, category_id |-> 0, category_name |-> n] :
                 n \in { <<"r", "o", "p">>, kw_computadora } }

ProductsByCategoryView_post(body, db_ok) ==
    /\ call' = Request("products_by_category", NoRequest, body.json,
                       body.category_name, <<body.category_id>>)
    /\ IF ~body.json THEN ret' = Json(200, FALSE, Template("json_error"))
       ELSE IF body.category_id = 0 /\ body.category_name = <<>>
       THEN ret' = Json(400, FALSE, Template("Se requiere category_id o category_name"))
       ELSE IF ~db_ok THEN ret' = Json(200, FALSE, Template("db_error"))
       ELSE LET products ==
                    IF body.category_id # 0
                    THEN { p \in Available : p.category = body.category_id }
                    ELSE { p \in Available :
                             icontains(CategoryName(p), body.category_name) }
            IN  \E q \in Unordered(products) :
                    ret' = Json(200, TRUE, Listing("products", q))
    /\ UNCHANGED <<Tables, ChatMessage, session, clock>>

\* request bodies of CompareProductsView: not JSON, a JSON object without
\* product_ids, or one with a list of ids
CompareBodies ==
    { [json |-> FALSE, has_ids |-> FALSE, product_ids |-> <<>>],
      [json |-> TRUE, has_ids |-> FALSE, product_ids |-> <<>>] }
      \cup { [json |-> TRUE, has_ids |-> TRUE, product_ids |-> ids] :
                 ids \in ProductIdLists }

\* data.get('product_ids', [])
GetProductIds(body) == IF body.has_ids THEN body.product_ids ELSE <<>>

\* mutant of CompareProductsView_post: the view refuses only an empty list
CompareProductsView_post_EmptyOnly(body, load, svc, db_ok) ==
    /\ call' = Request("compare_products", NoRequest, body.json, <<>>, body.product_ids)
    /\ IF ~body.json THEN ret' = Json(200, FALSE, Template("json_error"))
       ELSE IF Len(GetProductIds(body)) < 1 THEN ret' = Json(400, FALSE, NeedTwo)
       ELSE LET chat_utils == ChatBotUtils_init(api_key, load)
                r == compare_products(GetProductIds(body), chat_utils.model, svc, db_ok)
            IN  IF chat_utils.raised
                THEN ret' = Constructed(
                                Json(200, FALSE, Template("Error al comparar productos")))
                ELSE IF r.raised
                THEN ret' = Constructed(
                                [Json(200, FALSE, Template("Error al comparar productos"))
                                     EXCEPT !.trace = r])
                ELSE ret' = Constructed([Json(200, TRUE, r.value) EXCEPT !.trace = r])
    /\ UNCHANGED <<Tables, ChatMessage, session, clock>>

CompareProductsView_post(body, load, svc, db_ok) ==
    /\ call' = Request("compare_products", NoRequest, body.json, <<>>, body.product_ids)
    /\ IF ~body.json THEN ret' = Json(200, FALSE, Template("json_error"))
       ELSE IF Len(GetProductIds(body)) < 2 THEN ret' = Json(400, FALSE, NeedTwo)
       ELSE LET chat_utils == ChatBotUtils_init(api_key, load)
                r == compare_products(GetProductIds(body), chat_utils.model, svc, db_ok)
            IN  IF chat_utils.raised
                THEN ret' = Constructed(
                                Json(200, FALSE, Template("Error al comparar productos")))
                ELSE IF r.raised
                THEN ret' = Constructed(
                                [Json(200, FALSE, Template("Error al comparar productos"))
                                     EXCEPT !.trace = r])
                ELSE ret' = Constructed([Json(200, TRUE, r.value) EXCEPT !.trace = r])
    /\ UNCHANGED <<Tables, ChatMessage, session, clock>>

get_stock_list(db_ok) ==
    /\ call' = Request("stock_list", NoRequest, TRUE, <<>>, <<>>)
    /\ IF ~db_ok THEN ret' = Json(200, FALSE, Template("Error al obtener lista de stock"))
       ELSE \E q \in Unordered(Available) : ret' = Json(200, TRUE, Listing("stock_list", q))
    /\ UNCHANGED <<Tables, ChatMessage, session, clock>>

-----------------------------------------------------------------------------
(* GenerateStockPDFView and ChatBotUtils.generate_stock_pdf *)

\* str comparison of the category names of the pool
CategoryRank(name) == IF name = name_Computadoras THEN 1 ELSE 2

\* order_by('category__category_name', 'product_name')
ReportKey ==
    [p \in Product |-> CategoryRank(CategoryName(p)) * 10 + NameRank(p.product_name)]

Line(page, y, kind, text) == [page |-> page, y |-> y, kind |-> kind, text |-> text]

\* the loop of generate_stock_pdf over products[i..]: the lines drawn
RECURSIVE DrawStock(_, _, _, _, _)
DrawStock(products, i, page, y_position, current_category) ==
    IF i > Len(products) THEN <<>>
    ELSE LET product == products[i]
             new == CategoryName(product) # current_category
             y1 == IF new THEN y_position - 20 ELSE y_position
             brk1 == new /\ y1 < 50
             y2 == IF brk1 THEN 750 ELSE y1
             y3 == IF new THEN y2 - 15 ELSE y2
             page3 == IF brk1 THEN page + 1 ELSE page
             brk2 == y3 < 50
             y4 == IF brk2 THEN 750 ELSE y3
             page4 == IF brk2 THEN page3 + 1 ELSE page3
             header == IF new THEN << Line(page3, y2, "category", CategoryName(product)) >>
                       ELSE <<>>
         IN  header \o << Line(page4, y4, "product", product.product_name) >>
                 \o DrawStock(products, i + 1, page4, y4 - 15, CategoryName(product))

\* ChatBotUtils.generate_stock_pdf: any fault is raised again
generate_stock_pdf(db_ok) ==
    IF ~db_ok THEN { Raise }
    ELSE { Return(Listing("stock_report", DrawStock(q, 1, 1, 700, <<>>))) :
               q \in OrderBy(Product, ReportKey) }

\* the loop of the fallback document of the view
RECURSIVE DrawBasic(_, _, _, _)
DrawBasic(products, i, page, y) ==
    IF i > Len(products) THEN <<>>
    ELSE LET brk == y < 50
             y1 == IF brk THEN 800 ELSE y
             page1 == IF brk THEN page + 1 ELSE page
         IN  << Line(page1, y1, "product", products[i].product_name) >>
                 \o DrawBasic(products, i + 1, page1, y1 - 15)

GenerateStockPDFView_get(load, db_ok, db_ok_again) ==
    /\ call' = Request("stock_pdf", NoRequest, TRUE, <<>>, <<>>)
    /\ LET chat_utils == ChatBotUtils_init(api_key, load)
           pdfs == IF chat_utils.raised THEN { Raise } ELSE generate_stock_pdf(db_ok)
       IN  \E pdf \in pdfs :
             IF ~pdf.raised THEN ret' = Constructed(Json(200, TRUE, pdf.value))
             ELSE IF ~db_ok_again
             THEN ret' = Constructed(Json(200, FALSE, Template("Error al generar PDF")))
             ELSE \E q \in OrderBy(Available, ReportKey) :
                     ret' = Constructed(Json(200, TRUE,
                                 Listing("basic_stock_report", DrawBasic(q, 1, 1, 750))))
    /\ UNCHANGED <<Tables, ChatMessage, session, clock>>

-----------------------------------------------------------------------------
(* Properties of the engine, checked under Spec *)

Responded == call.op = "respond"

Msg == Lower(call.user_message)

\* C1: generate_fallback_response returns a non-empty string and never
\* raises, for every message and every catalog, on each of its six branches
\* (the stock branch on a catalog without products included).
C1_FallbackNonEmptyStr ==
    Responded => /\ ~ret.raised
                 /\ IsStr(ret.value)
                 /\ ~IsEmptyStr(ret.value)

\* the branches in the order of the claim, and the keyword set of each
Priority == <<"category", "budget", "account", "purchase", "stock">>

KeywordsOf(b) ==
    CASE b = "category" -> CategoryKeywords
      [] b = "budget"   -> BudgetKeywords
      [] b = "account"  -> AccountKeywords
      [] b = "purchase" -> PurchaseKeywords
      [] b = "stock"    -> StockKeywords

Matches(b) == AnyWordIn(KeywordsOf(b), Msg)

Matching == { i \in 1..Len(Priority) : Matches(Priority[i]) }

FirstMatch ==
    IF Matching = {} THEN "general"
    ELSE Priority[CHOOSE i \in Matching : \A j \in Matching : i <= j]

\* the answers each branch can produce
KindsOf(b) ==
    CASE b = "category" -> {"category_products", "category_empty", "category_list"}
      [] b = "budget"   -> {"budget_list", "budget_none"}
      [] b = "account"  -> {"account_script"}
      [] b = "purchase" -> {"purchase_script"}
      [] b = "stock"    -> {"stock_top", "None"}
      [] b = "general"  -> {"general"}

\* a query of the branch raised: the catalog could not be read, or the
\* budget branch found no available product to name
Faulted(b) ==
    \/ ~call.db_ok /\ b \notin {"account", "purchase"}
    \/ b = "budget" /\ Available = {}

\* C2: the branches are tried in the order category, budget, account,
\* purchase, stock, general by case-insensitive containment; the answer is
\* the one of the first branch whose keyword set matches (its static
\* greeting when that branch faults), and the general greeting is produced
\* only when no keyword set matches.
C2_FirstMatchWins ==
    Responded =>
        /\ IF Faulted(FirstMatch)
           THEN ret.value = StaticGreeting
           ELSE ret.value.kind \in KindsOf(FirstMatch)
        /\ ret.value.kind = "general" => Matching = {}

\* a message matching the budget and the purchase keyword sets ("pagos"
\* holds "gs" and "pago") is answered by the budget branch
C2_Witness ==
    /\ Responded
    /\ Matches("budget") /\ Matches("purchase") /\ ~Matches("category")
    /\ ret.value.kind = "budget_list"

\* the named category keywords and the category each one names
NamedCategories ==
    { [keyword |-> CategoryKeywords[3], category_name |-> name_Computadoras],
      [keyword |-> CategoryKeywords[4], category_name |-> name_Ropa] }

SortedByName(items) ==
    \A i, j \in 1..Len(items) :
        i < j => NameRank(items[i].product_name) <= NameRank(items[j].product_name)

\* C3: a message with a recognized category keyword (and no keyword of a
\* stronger branch: there is none) is answered with a listing of the
\* available products of that category only, sorted by product name.
C3_CategoryListing ==
    \A n \in NamedCategories :
        (/\ Responded /\ call.db_ok
         /\ Contains(Msg, n.keyword)
         /\ \A o \in NamedCategories \ {n} : ~Contains(Msg, o.keyword))
        => /\ ret.value.kind \in {"category_products", "category_empty"}
           /\ \A i \in 1..Len(ret.value.items) :
                 /\ ret.value.items[i].is_available
                 /\ CategoryName(ret.value.items[i]) = n.category_name
           /\ SortedByName(ret.value.items)

Affordable == { p \in Available : p.price <= 200000 }

Cheapest == CHOOSE p \in Available : \A o \in Available : p.price <= o.price

SortedByPrice(items) ==
    \A i, j \in 1..Len(items) : i < j => items[i].price <= items[j].price

ItemSet(items) == { items[i] : i \in 1..Len(items) }

BudgetAnswer ==
    IF Affordable # {}
    THEN /\ ret.value.kind = "budget_list"
         /\ ItemSet(ret.value.items) = Affordable
         /\ Len(ret.value.items) = Cardinality(Affordable)
         /\ SortedByPrice(ret.value.items)
    ELSE /\ ret.value.kind = "budget_none"
         /\ ret.value.price = Cheapest.price

\* C4 as stated: every message with a budget keyword is answered with
\* exactly the available products priced at or below 200000 in ascending
\* price order, or, when there is none, with the price of the cheapest
\* available product.
C4_Original == (Responded /\ Matches("budget") /\ call.db_ok) => BudgetAnswer

\* C4: a message with a budget keyword and no category keyword, the catalog
\* being readable, is answered with exactly the available products priced
\* at or below 200000 in ascending price order; when there is none, with
\* the price of the cheapest available product if one is available, and
\* with the static greeting if no product is available at all.
C4_BudgetListing ==
    (Responded /\ Matches("budget") /\ ~Matches("category") /\ call.db_ok) =>
        IF Available = {} THEN ret.value = StaticGreeting ELSE BudgetAnswer

\* two affordable products listed while a dearer one and an unavailable one
\* are left out
C4_Witness ==
    /\ Responded /\ Matches("budget") /\ ~Matches("category") /\ call.db_ok
    /\ ret.value.kind = "budget_list" /\ Len(ret.value.items) = 2
    /\ \E p \in Product : p.is_available /\ p.price > 200000


Generated == call.op = "generate"

\* the service signalled a failure, or there was no model to call
ServiceFailed ==
    \/ call.model = NoModel
    \/ ret.service_called /\ call.svc.kind # "ok"

ServiceSucceeded == ret.service_called /\ call.svc.kind = "ok"

\* C5: when the service fails in any way, or no model was loaded,
\* generate_google_ai_response does not raise and returns exactly what
\* generate_fallback_response returned for the same message; when the
\* service succeeds the fallback engine is not invoked.
C5_FallbackOnFailure ==
    Generated =>
        /\ ServiceFailed =>
              /\ ~ret.raised
              /\ ret.fallback_called
              /\ ret.value = ret.fallback_value
              /\ ret.value \in generate_fallback_response(call.user_message, call.db_ok)
        /\ ServiceSucceeded => ~ret.fallback_called

\* the service raised on a budget question and the caller got the budget
\* listing of the fallback engine
C5_Witness ==
    /\ Generated /\ call.model # NoModel
    /\ ret.service_called /\ call.svc.kind = "error"
    /\ ret.fallback_called /\ ret.value.kind = "budget_list"

Compared == call.op = "compare"

Resolved == Cardinality(ProductsIn(call.product_ids))

\* C6: when the ids resolve to fewer than 2 existing products,
\* compare_products returns "Se necesitan al menos 2 productos para
\* comparar" and the service is not invoked during the call.
C6_InsufficientProducts ==
    (Compared /\ call.db_ok /\ Resolved < 2) =>
        /\ ~ret.raised
        /\ ret.value = NeedTwo
        /\ ~ret.service_called

\* two ids, one of them of no product, with a model loaded and a service
\* that would answer
C6_Witness ==
    /\ Compared /\ call.db_ok /\ Resolved = 1 /\ Len(call.product_ids) = 2
    /\ call.model # NoModel /\ call.svc.kind = "ok"
    /\ ret.value = NeedTwo

\* C7: with at least 2 products resolved, when the service call fails or no
\* model is loaded, compare_products falls back to the manual comparison
\* and returns a string: no exception leaves it.
C7_ManualComparison ==
    (Compared /\ call.db_ok /\ Resolved >= 2 /\ ServiceFailed) =>
        /\ ret.manual_called
        /\ ~ret.raised
        /\ IsStr(ret.value)

-----------------------------------------------------------------------------
(* Specification of the views: one request at a time, in any order, on a  *)
(* small catalog                                                           *)

ChatCatalogs ==
    { c \in Catalogs : c.Category = CategoryPool /\ \A p \in c.Product : p.id = 1 }

ChatMessages == { <<"s", "t", "o", "c", "k">> }

\* every model loads, or none does
ChatLoads ==
    { load \in LoadOutcomes :
        /\ load.latest = load.pro /\ load.pro = load.listed
        /\ load.listing = "some" }

ChatServiceOutcomes ==
    { svc \in ServiceOutcomes : svc.kind = "error" \/ Strip(svc.text) # <<>> }

ChatIdLists == UNION { [1..n -> {1, 9}] : n \in 0..2 }

Requests ==
    { [user |-> u, browser |-> "b1"] : u \in Users }
      \cup { [user |-> NoUser, browser |-> b] : b \in Browsers }

NoCall == Request("idle", NoRequest, TRUE, <<>>, <<>>)

NoResponse == Json(200, TRUE, None)

InitChat ==
    /\ \E c \in ChatCatalogs : Product = c.Product /\ Category = c.Category
    /\ api_key \in BOOLEAN
    /\ ChatMessage = <<>>
    /\ session = [b \in Browsers |-> NoKey]
    /\ clock = 0
    /\ call = NoCall
    /\ ret = NoResponse

\* the server takes one request at a time
Ready == call.op = "idle"

SendMessage ==
    /\ Ready
    /\ Len(ChatMessage) < MaxTurns
    /\ \E request \in Requests, valid \in BOOLEAN, user_message \in ChatMessages,
          load \in ChatLoads, svc \in ChatServiceOutcomes, db_ok \in BOOLEAN,
          now \in {clock, clock + 1} :
            ChatView_post(request, valid, user_message, load, svc, db_ok, now)

ReadTranscript == Ready /\ \E request \in Requests : ChatView_get(request)

ProductsByCategory ==
    /\ Ready
    /\ \E body \in CategoryBodies, db_ok \in BOOLEAN :
          ProductsByCategoryView_post(body, db_ok)

CompareProducts ==
    /\ Ready
    /\ \E body \in CompareBodies, load \in ChatLoads, svc \in ChatServiceOutcomes,
          db_ok \in BOOLEAN :
            /\ body.product_ids \in ChatIdLists
            /\ CompareProductsView_post(body, load, svc, db_ok)

StockList == Ready /\ \E db_ok \in BOOLEAN : get_stock_list(db_ok)

StockReport ==
    /\ Ready
    /\ \E load \in ChatLoads, db_ok \in BOOLEAN, db_ok_again \in BOOLEAN :
          GenerateStockPDFView_get(load, db_ok, db_ok_again)

\* the response (or the error page) has gone to the client and the server
\* is ready for the next request
Deliver ==
    /\ ~Ready
    /\ call' = NoCall
    /\ ret' = NoResponse
    /\ UNCHANGED <<Tables, ChatMessage, session, clock>>

NextChat ==
    \/ SendMessage
    \/ ReadTranscript
    \/ ProductsByCategory
    \/ CompareProducts
    \/ StockList
    \/ StockReport
    \/ Deliver

SpecChat == InitChat /\ [][NextChat]_vars

-----------------------------------------------------------------------------
(* Specification of a long conversation: one user and one anonymous       *)
(* browser exchange messages until the log holds more turns than the      *)
(* history reads return                                                    *)

LogRequests == { r \in Requests : r.browser = "b1" }

LogMessage == <<"p", "a", "s", "s", "w", "o", "r", "d">>

InitLog ==
    /\ Product = { p \in ProductPool : p.id = 1 }
    /\ Category = CategoryPool
    /\ api_key = TRUE
    /\ ChatMessage = <<>>
    /\ session = [b \in Browsers |-> NoKey]
    /\ clock = 0
    /\ call = NoCall
    /\ ret = NoResponse

\* the identity a turn is stored under
IdentityOf(row) == IF row.user # NoUser THEN row.user ELSE row.session_key

Identities == Users \cup SessionKeys

\* once a turn of identity who is saved at time now: the turns that did
\* not advance the clock, plus the turns of all but the most active identity
OddTurns(who, now) ==
    LET count == [x \in Identities |->
                    Cardinality({ i \in 1..Len(ChatMessage) :
                                     IdentityOf(ChatMessage[i]) = x })
                      + (IF x = who THEN 1 ELSE 0)]
        most == CHOOSE x \in Identities : \A y \in Identities : count[y] <= count[x]
    IN  (Len(ChatMessage) + 1 - now) + (Len(ChatMessage) + 1 - count[most])

LogSendMessage ==
    /\ Ready
    /\ Len(ChatMessage) < MaxLogTurns
    /\ \E request \in LogRequests, load \in ChatLoads, now \in {clock, clock + 1} :
          /\ load.latest
          /\ ChatView_post(request, TRUE, LogMessage, load,
                           [kind |-> "error", text |-> <<>>], TRUE, now)
          /\ OddTurns(IdentityOf(ChatMessage'[Len(ChatMessage')]), now) <= MaxOdd

LogReadTranscript == Ready /\ \E request \in LogRequests : ChatView_get(request)

NextLog ==
    \/ LogSendMessage
    \/ LogReadTranscript
    \/ Deliver

SpecLog == InitLog /\ [][NextLog]_vars

-----------------------------------------------------------------------------
(* Properties of the conversation log *)

\* a history read has just been answered: the transcript read of
\* ChatView.get, or the context read of a ChatView.post that saved its turn
HistoryRead == call.op \in {"get", "post"} /\ call.valid /\ ~ret.raised

ReadLimit == IF call.op = "get" THEN 20 ELSE 10

\* the turn belongs to the identity of the request just answered
OwnTurn(row) ==
    IF IsAuthenticated(call.request)
    THEN row.user = call.request.user
    ELSE row.user = NoUser /\ row.session_key = session[call.request.browser]

Stored(row) == \E i \in 1..Len(ChatMessage) : ChatMessage[i] = row

\* C8: every history read (ChatView.get with limit 20, ChatView.post with
\* limit 10) returns stored turns of the requesting identity only, in
\* non-decreasing timestamp order, and at most limit of them.
C8_HistoryRead ==
    HistoryRead =>
        /\ Len(ret.history) <= ReadLimit
        /\ \A k \in 1..Len(ret.history) :
              Stored(ret.history[k]) /\ OwnTurn(ret.history[k])
        /\ \A j, k \in 1..Len(ret.history) :
              j < k => ret.history[j].timestamp <= ret.history[k].timestamp

\* the user reads the transcript when the log holds more than 20 of the
\* user's turns and a turn of the anonymous browser
C8_Witness ==
    /\ call.op = "get" /\ IsAuthenticated(call.request)
    /\ Cardinality(OwnRows(call.request, NoKey)) > 20
    /\ \E i \in 1..Len(ChatMessage) : ChatMessage[i].user = NoUser
    /\ Len(ret.history) = 20

\* C9: every stored turn has exactly one of user identity and session token
\* set: a turn of an anonymous request carries a non-empty session token and
\* no user, a turn of an authenticated request the user and no token.
C9_IdentityXorSession ==
    /\ \A i \in 1..Len(ChatMessage) :
          \/ ChatMessage[i].user = NoUser /\ ChatMessage[i].session_key \in SessionKeys
          \/ ChatMessage[i].user \in Users /\ ChatMessage[i].session_key = ""
    /\ (call.op = "post" /\ call.valid /\ ~ret.raised) =>
          LET saved == ChatMessage[Len(ChatMessage)]
          IN  IF IsAuthenticated(call.request)
              THEN saved.user = call.request.user
              ELSE saved.user = NoUser
                     /\ saved.session_key = session[call.request.browser]

\* the log holds a turn of a user and a turn of an anonymous session, the
\* latter just saved for a browser that had no session before
C9_Witness ==
    /\ call.op = "post" /\ call.valid /\ ~ret.raised
    /\ ~IsAuthenticated(call.request)
    /\ \E i \in 1..Len(ChatMessage) : ChatMessage[i].user \in Users
    /\ Cardinality({ b \in Browsers : session[b] # NoKey }) = 1

\* C10: a sendMessage request with a valid form appends exactly one turn,
\* with the submitted message and the bot text returned to the caller; one
\* with an invalid form appends nothing; no operation changes or removes a
\* stored turn.
C10_AppendOnly ==
    [][ /\ (Ready /\ call'.op = "post" /\ call'.valid) =>
              /\ ~ret'.raised
              /\ Len(ChatMessage') = Len(ChatMessage) + 1
              /\ ChatMessage'[Len(ChatMessage')].user_message = call'.user_message
              /\ ChatMessage'[Len(ChatMessage')].bot_response = ret'.value
        /\ (Ready /\ call'.op = "post" /\ ~call'.valid) => ChatMessage' = ChatMessage
        /\ (call'.op # "post") => ChatMessage' = ChatMessage
        /\ Len(ChatMessage') >= Len(ChatMessage)
        /\ \A i \in 1..Len(ChatMessage) : ChatMessage'[i] = ChatMessage[i]
      ]_vars

-----------------------------------------------------------------------------
(* Properties of the views, checked under SpecChat *)

ComparePosted == call.op = "compare_products"

\* C11: a compareProducts request whose JSON body carries fewer than 2
\* product ids (an empty list, a single id, or no product_ids field) is
\* answered with success false, status 400 and the message "Se necesitan al
\* menos 2 productos para comparar"; ChatBotUtils() is not called for it and
\* the service is not invoked.
C11_TooFewIds ==
    (ComparePosted /\ call.valid /\ Len(call.product_ids) < 2) =>
        /\ ~ret.raised
        /\ ret.status = 400 /\ ~ret.success
        /\ ret.value = NeedTwo
        /\ ~ret.constructed
        /\ ~ret.trace.service_called

\* a single id of an existing product is refused with status 400
C11_Witness ==
    /\ ComparePosted /\ call.valid
    /\ Len(call.product_ids) = 1 /\ ProductsIn(call.product_ids) # {}
    /\ ret.status = 400 /\ ret.value = NeedTwo

\* a sendMessage request with a valid form has just been handled
MessagePosted == call.op = "post" /\ call.valid

\* C12: whatever fails while a sendMessage request with a valid form is
\* handled (ChatBotUtils() without GOOGLE_AI_API_KEY, the loading of the
\* models, the service, a catalog query), ChatView.post returns a response
\* and no exception leaves it.
C12_NoUncaught ==
    MessagePosted => /\ ~ret.raised
                     /\ ret.status = 200

-----------------------------------------------------------------------------
(* Faults inside the fallback engine, checked under Spec *)

\* generate_fallback_response has just run: called directly, or from the
\* except clause of generate_google_ai_response
FellBack == Responded \/ (Generated /\ ret.fallback_called)

\* the budget branch with nothing to name: no available product at all, so
\* none priced at or below 200000 and no cheapest one either
BudgetWithoutProducts ==
    /\ Matches("budget") /\ ~Matches("category")
    /\ call.db_ok
    /\ Affordable = {} /\ Available = {}

\* C13: a fault inside generate_fallback_response is never propagated and
\* gives exactly the static greeting; in particular on the budget branch
\* when no product is priced at or below 200000 and no product is available
\* at all.
C13_FaultGivesGreeting ==
    FellBack =>
        /\ ~ret.raised
        /\ Faulted(FirstMatch) => ret.value = StaticGreeting
        /\ BudgetWithoutProducts => ret.value = StaticGreeting

\* a budget question on a catalog whose only products are unavailable
C13_Witness ==
    /\ Responded /\ BudgetWithoutProducts
    /\ Product # {}
    /\ ret.value = StaticGreeting

-----------------------------------------------------------------------------
(* Recency of the history reads, checked under SpecLog *)

\* the turns of the requesting identity that were stored when the history
\* was read: ChatView.post reads before it saves its own turn
OwnBefore ==
    { i \in 1..(IF call.op = "post" THEN Len(ChatMessage) - 1 ELSE Len(ChatMessage)) :
        OwnTurn(ChatMessage[i]) }

Returned == { ret.history[k] : k \in 1..Len(ret.history) }

\* C15: a history read returns the most recent turns of the requesting
\* identity in chronological order, also when the identity has more stored
\* turns than the limit (10 for ChatView.post, 20 for ChatView.get): no turn
\* left out is newer than a turn returned, and a latest stored turn is
\* among the turns returned.
C15_MostRecent ==
    HistoryRead =>
        /\ \A j, k \in 1..Len(ret.history) :
              j < k => ret.history[j].timestamp <= ret.history[k].timestamp
        /\ \A i \in OwnBefore :
              ChatMessage[i] \notin Returned =>
                  \A r \in Returned : ChatMessage[i].timestamp <= r.timestamp
        /\ OwnBefore # {} =>
              \E r \in Returned :
                  \A i \in OwnBefore : ChatMessage[i].timestamp <= r.timestamp

-----------------------------------------------------------------------------
(* Specification of a sendMessage request in two steps: ChatView.post runs  *)
(* up to self.model.generate_content(...) and blocks in it until the        *)
(* service answers                                                          *)

\* the handler is inside generate_content: nothing has been returned yet
Waiting ==
    Constructed([Response(FALSE, 0, FALSE, None, <<>>, NoTrace)
                     EXCEPT !.trace.service_called = TRUE])

\* ChatView.post up to the service call; a request that never reaches the
\* service (invalid form, no key, no model, prompt data unreadable) is
\* handled in this one step
WaitSendMessage ==
    /\ Ready
    /\ Len(ChatMessage) < MaxTurns
    /\ \E request \in Requests, valid \in BOOLEAN, user_message \in ChatMessages,
          load \in ChatLoads, db_ok \in BOOLEAN, now \in {clock, clock + 1} :
            LET chat_utils == ChatBotUtils_init(api_key, load)
            IN  IF valid /\ ~chat_utils.raised /\ chat_utils.model # NoModel /\ db_ok
                THEN /\ call' = Request("post", request, TRUE, user_message, <<>>)
                     /\ ret' = Waiting
                     /\ UNCHANGED <<Tables, ChatMessage, session, clock>>
                ELSE ChatView_post(request, valid, user_message, load, Idle.svc,
                                   db_ok, now)

\* generate_content returns or raises (a deadline of the client library
\* would show as a raise): a step of the service, not of the handler, which
\* passes no timeout and sets no deadline of its own
ServiceAnswers ==
    /\ ret = Waiting
    /\ \E load \in ChatLoads, svc \in ChatServiceOutcomes, now \in {clock, clock + 1} :
          /\ ChatBotUtils_init(api_key, load).model # NoModel
          /\ ChatView_post(call.request, TRUE, call.user_message, load, svc, TRUE, now)

\* the response of a finished handler goes to the client
Reply == ret # Waiting /\ Deliver

NextWait ==
    \/ WaitSendMessage
    \/ ServiceAnswers
    \/ Reply

\* the handler is scheduled fairly: a step it can take, it takes
FairWait == WF_vars(Reply)

SpecWait == InitChat /\ [][NextWait]_vars /\ FairWait

Pending == call.op = "post" /\ ret = Waiting

Answered == call.op = "post" /\ ret # Waiting

\* C14: the call to the service is time-bounded: with the handler scheduled
\* fairly, every sendMessage request that is waiting for the service is
\* eventually answered, even if the service never answers.
C14_TimeBounded == Pending ~> Answered

=============================================================================
